---- MODULE Spec2Model ----
(***************************************************************************)
(* Model of ulipsync-profile-gen: the MFCC pipeline (src/src/algorithm.rs, *)
(* src/src/mfcc.rs) and the per-label calibration store (src/src/lib.rs).  *)
(*                                                                         *)
(* f32 values are modelled as binary fixed-point numbers with ten          *)
(* fractional bits: a finite value v stands for v / SCALE.  Like f32, the  *)
(* format has +Inf, -Inf and NaN, overflows to an infinity (at FMAX) and   *)
(* underflows to zero.  Zero is unsigned.  Arrays are 1-based sequences:   *)
(* Rust index i is sequence index i + 1.                                   *)
(***************************************************************************)
EXTENDS Integers, Sequences, FiniteSets, TLC

VARIABLES
  self,             \* the ProfileGenerator (src/src/lib.rs)
  overflow_checks,  \* the build: TRUE when integer overflow panics, FALSE when it wraps
  result,           \* what the last call returned, or how it ended
  accepted,         \* history: per label, the vectors pushed since the last finish
  computed,         \* history: the vectors the pipeline returned during the last add_sample
  scratch,          \* the pipeline on its own: the MfccBufferPool it is handed
  features,         \* the pipeline on its own: the `out` vector it is handed
  args, ret         \* a function on its own: its arguments and what it returned

history == <<accepted, computed>>
harness == <<scratch, features, args, ret>>
vars == <<self, overflow_checks, result, history, harness>>

(* ------------------------------- f32 ---------------------------------- *)
SCALE == 1024
FMAX == 2097152
PInf == FMAX
NInf == -FMAX
NaN == FMAX + 1
MAXI == 2147483647

IsNaN(a) == a = NaN
IsInf(a) == a = PInf \/ a = NInf
\* f32::is_finite
IsFinite(a) == a > NInf /\ a < PInf
Abs(n) == IF n < 0 THEN -n ELSE n
Sgn(n) == IF n < 0 THEN -1 ELSE IF n > 0 THEN 1 ELSE 0
Max(a, b) == IF a >= b THEN a ELSE b
Min(a, b) == IF a <= b THEN a ELSE b
\* overflow to an infinity
Sat(n) == IF n >= FMAX THEN PInf ELSE IF n <= -FMAX THEN NInf ELSE n
SignedInf(s) == IF s < 0 THEN NInf ELSE PInf

FNeg(a) == IF IsNaN(a) THEN NaN ELSE -a

FAdd(a, b) ==
  IF IsNaN(a) \/ IsNaN(b) THEN NaN
  ELSE IF IsInf(a) THEN (IF IsInf(b) /\ a # b THEN NaN ELSE a)
  ELSE IF IsInf(b) THEN b
  ELSE Sat(a + b)

FSub(a, b) == FAdd(a, FNeg(b))

\* quotient n / d of naturals, d > 0, rounded to nearest
RoundDiv(n, d) == (n \div d) + (IF 2 * (n % d) >= d THEN 1 ELSE 0)

FMul(a, b) ==
  IF IsNaN(a) \/ IsNaN(b) THEN NaN
  ELSE IF IsInf(a) \/ IsInf(b)
    THEN (IF a = 0 \/ b = 0 THEN NaN ELSE SignedInf(Sgn(a) * Sgn(b)))
  ELSE IF a = 0 \/ b = 0 THEN 0
  ELSE IF Abs(a) > MAXI \div Abs(b) THEN SignedInf(Sgn(a) * Sgn(b))
  ELSE Sat(Sgn(a) * Sgn(b) * RoundDiv(Abs(a) * Abs(b), SCALE))

FDiv(a, b) ==
  IF IsNaN(a) \/ IsNaN(b) THEN NaN
  ELSE IF IsInf(a)
    THEN (IF IsInf(b) THEN NaN ELSE SignedInf(Sgn(a) * (IF b < 0 THEN -1 ELSE 1)))
  ELSE IF IsInf(b) THEN 0
  ELSE IF b = 0 THEN (IF a = 0 THEN NaN ELSE SignedInf(Sgn(a)))
  ELSE Sat(Sgn(a) * Sgn(b) * RoundDiv(Abs(a) * SCALE, Abs(b)))

\* `n as f32` for an integer n
FromInt(n) == IF Abs(n) >= FMAX \div SCALE THEN SignedInf(n) ELSE n * SCALE

\* f32::abs
FAbs(a) == IF IsNaN(a) THEN NaN ELSE Abs(a)
\* f32::max: a NaN operand is ignored
FMax(a, b) == IF IsNaN(a) THEN b ELSE IF IsNaN(b) THEN a ELSE Max(a, b)

\* `x as usize`: saturating, NaN to 0; USIZE_MAX stands for usize::MAX
USIZE_MAX == 1000000
AsUsize(a) == IF IsNaN(a) \/ a <= 0 THEN 0 ELSE IF a = PInf THEN USIZE_MAX ELSE a \div SCALE
\* `x as i32` for a rounded x
AsI32(a) == IF IsNaN(a) THEN 0 ELSE IF a = PInf THEN MAXI ELSE IF a = NInf THEN -MAXI - 1 ELSE (IF a >= 0 THEN a \div SCALE ELSE -((-a) \div SCALE))

FFloor(a) == IF ~IsFinite(a) THEN a ELSE (a \div SCALE) * SCALE
FCeil(a) == IF ~IsFinite(a) THEN a ELSE Sat(-(((-a) \div SCALE) * SCALE))
\* f32::round_ties_even
FRoundTiesEven(a) ==
  IF ~IsFinite(a) THEN a
  ELSE LET fl == a \div SCALE
           r  == a % SCALE
       IN IF 2 * r < SCALE THEN fl * SCALE
          ELSE IF 2 * r > SCALE THEN Sat((fl + 1) * SCALE)
          ELSE IF fl % 2 = 0 THEN fl * SCALE ELSE Sat((fl + 1) * SCALE)

\* a Vec<f32> or slice as a sequence value
Vec(f) == f \o <<>>

(* --------------------- libm functions of f32 -------------------------- *)
\* std::f32::consts::PI, LN_2 and LN_10 in the fixed-point format
PI == 3217
LN_2 == 710
LN_10 == 2358

\* sin on [0, PI] (Bhaskara's rational approximation)
SinHalfTurn(x) ==
  LET p == x * (PI - x)
  IN RoundDiv(16 * p, (5 * PI * PI - 4 * p) \div SCALE)

\* f32::sin
FSin(a) ==
  IF ~IsFinite(a) THEN NaN
  ELSE LET r == a % (2 * PI)
       IN IF r <= PI THEN SinHalfTurn(r) ELSE -SinHalfTurn(r - PI)

\* f32::cos
FCos(a) == IF ~IsFinite(a) THEN NaN ELSE FSin((a % (2 * PI)) + PI \div 2)

RECURSIVE Pow2(_)
Pow2(k) == IF k <= 0 THEN 1 ELSE 2 * Pow2(k - 1)

\* ln of a finite x > 0: x = m * 2^k with m in [1, 2), ln m by the atanh series
RECURSIVE LnPos(_, _)
LnPos(x, k) ==
  IF x >= 2 * SCALE THEN LnPos(x \div 2, k + 1)
  ELSE IF x < SCALE THEN LnPos(x * 2, k - 1)
  ELSE LET t  == RoundDiv((x - SCALE) * SCALE, x + SCALE)
           t2 == FMul(t, t)
           t3 == FMul(t2, t)
           t5 == FMul(t3, t2)
       IN k * LN_2 + 2 * (t + RoundDiv(t3, 3) + RoundDiv(t5, 5))

\* f32::ln
FLn(a) ==
  IF IsNaN(a) \/ a < 0 THEN NaN
  ELSE IF a = 0 THEN NInf
  ELSE IF a = PInf THEN PInf
  ELSE LnPos(a, 0)

\* f32::log10
FLog10(a) == FDiv(FLn(a), LN_10)

\* f32::exp
FExp(a) ==
  IF IsNaN(a) THEN NaN
  ELSE IF a = PInf THEN PInf
  ELSE IF a = NInf THEN 0
  ELSE LET k  == a \div LN_2
           r  == a - k * LN_2
           r2 == FMul(r, r)
           r3 == FMul(r2, r)
           r4 == FMul(r3, r)
           e  == SCALE + r + RoundDiv(r2, 2) + RoundDiv(r3, 6) + RoundDiv(r4, 24)
       IN IF k >= 11 THEN PInf
          ELSE IF k >= 0 THEN Sat(e * Pow2(k))
          ELSE IF k < -12 THEN 0
          ELSE RoundDiv(e, Pow2(-k))

\* floor of the square root of a natural, by bisection on [lo, hi)
RECURSIVE ISqrtIn(_, _, _)
ISqrtIn(n, lo, hi) ==
  IF hi - lo <= 1 THEN lo
  ELSE LET mid == (lo + hi) \div 2
       IN IF mid * mid <= n THEN ISqrtIn(n, mid, hi) ELSE ISqrtIn(n, lo, mid)

\* Complex32::norm (hypot)
RECURSIVE CNorm(_, _)
CNorm(re, im) ==
  IF IsInf(re) \/ IsInf(im) THEN PInf
  ELSE IF IsNaN(re) \/ IsNaN(im) THEN NaN
  ELSE IF Abs(re) >= 32768 \/ Abs(im) >= 32768
    THEN Sat(2 * CNorm(Sgn(re) * (Abs(re) \div 2), Sgn(im) * (Abs(im) \div 2)))
  ELSE ISqrtIn(re * re + im * im, 0, 46341)

(* ------------------------- src/src/algorithm.rs ----------------------- *)
\* literals of the source in the fixed-point format
F_0_5 == SCALE \div 2
F_2_0 == 2 * SCALE
F_10_0 == 10 * SCALE
F_3_1 == (31 * SCALE) \div 10
F_0_54 == (54 * SCALE) \div 100
F_0_46 == SCALE - F_0_54
F_0_97 == (97 * SCALE) \div 100
F_700 == 700 * SCALE
F_1127 == 1127 * SCALE
\* f32::EPSILON (2^-23) is below the format's resolution
EPSILON == 0

RECURSIVE MaxAbsFrom(_, _, _)
MaxAbsFrom(slice, i, acc) ==
  IF i > Len(slice) THEN acc ELSE MaxAbsFrom(slice, i + 1, FMax(acc, FAbs(slice[i])))

get_max_value(slice) == MaxAbsFrom(slice, 1, 0)

normalize(data, peak) ==
  LET Scale(r) == Vec([i \in 1..Len(data) |-> FMul(data[i], r)])
      Normalized(m) == IF m > EPSILON /\ ~IsNaN(m) THEN Scale(FDiv(peak, m)) ELSE data
  IN Normalized(get_max_value(data))

\* b[i] of the kernel design loop (i is the Rust index)
KernelCoeff(i, blen, cutoff) ==
  LET BVal(ang) == FDiv(FMul(FMul(F_2_0, cutoff), FSin(ang)), ang)
      Ang(x)    == BVal(FMul(FMul(FMul(F_2_0, PI), cutoff), x))
  IN Ang(FSub(FromInt(i), FMul(FSub(FromInt(blen), SCALE), F_0_5)))

\* the inner loop over j for one i: data[i] += b[j] * tmp[i - j] while i >= j
RECURSIVE ConvolveFrom(_, _, _, _, _)
ConvolveFrom(acc, b, tmp, i, j) ==
  IF j >= Len(b) THEN acc
  ELSE ConvolveFrom(IF i >= j THEN FAdd(acc, FMul(b[j + 1], tmp[i - j + 1])) ELSE acc,
                    b, tmp, i, j + 1)

low_pass_filter_kernel(data, cutoff, tmp, b) ==
  LET blen == Len(b)
      bk   == Vec([i \in 1..blen |-> KernelCoeff(i - 1, blen, cutoff)])
  IN Vec([i \in 1..Len(data) |-> ConvolveFrom(data[i], bk, tmp, i - 1, 0)])

\* blen of low_pass_filter
KernelLen(sample_rate, range) ==
  LET range_n == FDiv(range, sample_rate)
      n0      == AsI32(FRoundTiesEven(FDiv(F_3_1, range_n)))
      n       == IF (n0 + 1) % 2 = 0 THEN n0 + 1 ELSE n0
  IN IF n > 0 THEN n ELSE 0

low_pass_filter(data, sample_rate, cutoff, range) ==
  LET cutoff_n == FDiv(FSub(cutoff, range), sample_rate)
      tmp      == data
      blen     == KernelLen(sample_rate, range)
      b        == Vec([i \in 1..blen |-> 0])
  IN low_pass_filter_kernel(data, cutoff_n, tmp, b)

\* the fractional branch of downsample
DownsampleDf(sample_rate, target_sample_rate) ==
  FDiv(FromInt(sample_rate), FromInt(target_sample_rate))
DownsampleOutLen(input, sample_rate, target_sample_rate) ==
  AsUsize(FRoundTiesEven(FDiv(FromInt(Len(input)), DownsampleDf(sample_rate, target_sample_rate))))
DownsampleI0(df, j) == AsUsize(FFloor(FMul(df, FromInt(j))))

\* input[i0] out of bounds in the fractional branch
downsample_panics(input, sample_rate, target_sample_rate) ==
  /\ sample_rate > target_sample_rate
  /\ ~(target_sample_rate # 0 /\ sample_rate % target_sample_rate = 0)
  /\ \E j \in 0..(DownsampleOutLen(input, sample_rate, target_sample_rate) - 1) :
       DownsampleI0(DownsampleDf(sample_rate, target_sample_rate), j) >= Len(input)

\* the new contents of `out` (cleared first, so its old contents are not read)
downsample(input, sample_rate, target_sample_rate) ==
  IF sample_rate <= target_sample_rate THEN input
  ELSE IF target_sample_rate # 0 /\ sample_rate % target_sample_rate = 0
    THEN LET skip    == sample_rate \div target_sample_rate
             out_len == Len(input) \div skip
         IN Vec([i \in 1..out_len |-> input[(i - 1) * skip + 1]])
  ELSE LET df      == DownsampleDf(sample_rate, target_sample_rate)
           out_len == DownsampleOutLen(input, sample_rate, target_sample_rate)
       IN Vec([jj \in 1..out_len |->
            LET j       == jj - 1
                f_index == FMul(df, FromInt(j))
                i0      == DownsampleI0(df, j)
                i1      == Min(i0, Max(Len(input) - 1, 0))
                t       == FSub(f_index, FromInt(i0))
            IN IF i0 >= Len(input) THEN NaN
               ELSE FAdd(FMul(input[i0 + 1], FSub(SCALE, t)), FMul(input[i1 + 1], t))])

pre_emphasis(data, coeff) ==
  Vec([i \in 1..Len(data) |-> IF i = 1 THEN data[i] ELSE FSub(data[i], FMul(coeff, data[i - 1]))])

hamming(data) ==
  LET n == FromInt(Len(data))
  IN Vec([ii \in 1..Len(data) |->
       LET i == FDiv(FromInt(ii - 1), FSub(n, SCALE))
           w == FSub(F_0_54, FMul(F_0_46, FCos(FMul(FMul(F_2_0, PI), i))))
       IN FMul(data[ii], w)])

\* the real part (part = 1) or imaginary part (part = 2) of
\* sum over n of x[n] * e^(-2 pi i k n / N), accumulated from term n on
RECURSIVE DftFrom(_, _, _, _, _)
DftFrom(data, k, n, part, acc) ==
  IF n >= Len(data) THEN acc
  ELSE LET ang == (2 * PI * ((k * n) % Len(data))) \div Len(data)
       IN DftFrom(data, k, n + 1, part,
                  IF part = 1 THEN FAdd(acc, FMul(data[n + 1], FCos(ang)))
                  ELSE FSub(acc, FMul(data[n + 1], FSin(ang))))

\* fft: the new contents of `complex` (forward transform of data)
fft_complex_of(data) == Vec([k \in 1..Len(data) |-> <<DftFrom(data, k - 1, 0, 1, 0), DftFrom(data, k - 1, 0, 2, 0)>>])
\* fft: the new contents of `out`
fft_spectrum_of(complex) == Vec([k \in 1..Len(complex) |-> CNorm(complex[k][1], complex[k][2])])

power_to_db(array) == Vec([i \in 1..Len(array) |-> FMul(F_10_0, FLog10(array[i]))])

to_mel(hz, slaney) ==
  LET a == IF slaney THEN 2595 * SCALE ELSE F_1127
  IN FMul(a, FLn(FAdd(FDiv(hz, F_700), SCALE)))

to_hz(mel, slaney) ==
  LET a == IF slaney THEN 2595 * SCALE ELSE F_1127
  IN FMul(F_700, FSub(FExp(FDiv(mel, a)), SCALE))

RECURSIVE DctSumFrom(_, _, _, _, _)
DctSumFrom(spectrum, i, a, j, sum) ==
  IF j >= Len(spectrum) THEN sum
  ELSE LET ang == FMul(FMul(FAdd(FromInt(j), F_0_5), FromInt(i)), a)
       IN DctSumFrom(spectrum, i, a, j + 1, FAdd(sum, FMul(spectrum[j + 1], FCos(ang))))

\* a dct that adds to the cell instead of assigning it (`*cep_val += sum`)
dct_accumulating(spectrum, out) ==
  LET len == Len(spectrum)
      a   == FDiv(PI, FromInt(len))
  IN Vec([ii \in 1..Len(out) |->
       IF ii <= len THEN DctSumFrom(spectrum, ii - 1, a, 0, out[ii]) ELSE out[ii]])

dct(spectrum, out) ==
  LET len == Len(spectrum)
      a   == FDiv(PI, FromInt(len))
  IN Vec([ii \in 1..Len(out) |->
       IF ii <= len THEN DctSumFrom(spectrum, ii - 1, a, 0, 0) ELSE out[ii]])

\* the loop over the bins of filter n, from bin i (Rust index) up to bin last
RECURSIVE MelSumFrom(_, _, _, _, _, _, _, _, _)
MelSumFrom(spectrum, df, f_begin, f_center, f_end, i_center, i, last, sum) ==
  IF i > last THEN sum
  ELSE LET Weighted(a) == FAdd(sum, FMul(a, spectrum[i + 1]))
           Halved(a0)  == Weighted(FDiv(a0, FMul(FSub(f_end, f_begin), F_0_5)))
           Slope(f)    == Halved(IF i < i_center
                                   THEN FDiv(FSub(f, f_begin), FSub(f_center, f_begin))
                                   ELSE FDiv(FSub(f_end, f), FSub(f_end, f_center)))
       IN MelSumFrom(spectrum, df, f_begin, f_center, f_end, i_center, i + 1, last,
                     Slope(FMul(df, FromInt(i))))

\* the loop over the filters from filter n on. `i_begin + 1` and `i_end - i_begin`
\* overflow usize when i_begin is usize::MAX or i_end < i_begin: a panic in a
\* build that checks overflow, a wrapped value otherwise
RECURSIVE MelFrom(_, _, _, _, _, _, _)
MelFrom(spectrum, df, d_mel, mel_div, n, out, checked) ==
  LET Bins(f_begin, f_center, f_end, i_begin, i_center, i_end) ==
        IF checked /\ (i_begin = USIZE_MAX \/ i_end < i_begin)
          THEN [panic |-> TRUE, out |-> out]
        ELSE LET skip == IF i_begin = USIZE_MAX THEN 0 ELSE i_begin + 1
                 take == IF i_end < i_begin THEN USIZE_MAX ELSE i_end - i_begin
                 last == Min(Len(spectrum) - 1, skip + take - 1)
             IN MelFrom(spectrum, df, d_mel, mel_div, n + 1,
                        [out EXCEPT ![n + 1] = MelSumFrom(spectrum, df, f_begin, f_center, f_end,
                                                          i_center, skip, last, 0)],
                        checked)
      Filter(f_begin, f_center, f_end) ==
        Bins(f_begin, f_center, f_end,
             AsUsize(FCeil(FDiv(f_begin, df))),
             AsUsize(FRoundTiesEven(FDiv(f_center, df))),
             AsUsize(FFloor(FDiv(f_end, df))))
  IN IF n >= mel_div \/ n >= Len(out) THEN [panic |-> FALSE, out |-> out]
     ELSE Filter(to_hz(FMul(d_mel, FromInt(n)), FALSE),
                 to_hz(FMul(d_mel, FromInt(n + 1)), FALSE),
                 to_hz(FMul(d_mel, FromInt(n + 2)), FALSE))

mel_filter_bank(spectrum, sample_rate, mel_div, out, checked) ==
  LET Bank(f_max) ==
        MelFrom(spectrum,
                FDiv(f_max, FromInt(Len(spectrum) \div 2)),
                FDiv(to_mel(f_max, FALSE), FromInt(mel_div + 1)),
                mel_div, 0, out, checked)
  IN Bank(FDiv(sample_rate, F_2_0))

(* --------------------------- src/src/mfcc.rs -------------------------- *)
MFCC_SIZE == 12
RANGE == 500 * SCALE

\* MfccBufferPool::new
MfccBufferPoolNew ==
  [downsample |-> <<>>, fft_complex |-> <<>>, spectrum |-> <<>>,
   mel_spectrum |-> <<>>, cepstrum |-> <<>>]

\* Vec::resize(new_len, 0.0): keeps the old elements, pads with 0.0
Resize(v, new_len) == Vec([i \in 1..new_len |-> IF i <= Len(v) THEN v[i] ELSE 0])

\* iter().skip(s).take(t) collected
SkipTake(v, s, t) == Vec([i \in 1..Max(0, Min(t, Len(v) - s)) |-> v[i + s]])

\* the statements of extract_mfcc in order, each as an operator on the pool
\* that the statement before it left; [panic, pool, out] is how the call ends
extract_mfcc(input, input_sample_rate, target_sample_rate, mel_filter_bank_channels, pool, out, checked) ==
  LET Extend(p) ==
        [panic |-> FALSE, pool |-> p, out |-> SkipTake(p.cepstrum, 1, MFCC_SIZE)]
      Dct(p) ==
        Extend([p EXCEPT !.cepstrum = dct(p.mel_spectrum, p.cepstrum)])
      ResizeCepstrum(p) ==
        Dct(IF Len(p.cepstrum) # mel_filter_bank_channels
              THEN [p EXCEPT !.cepstrum = Resize(@, mel_filter_bank_channels)]
              ELSE p)
      PowerToDb(p, mel) ==
        IF mel.panic
          THEN [panic |-> TRUE, pool |-> [p EXCEPT !.mel_spectrum = mel.out], out |-> out]
          ELSE ResizeCepstrum([p EXCEPT !.mel_spectrum = power_to_db(mel.out)])
      MelFilterBank(p) ==
        PowerToDb(p, mel_filter_bank(p.spectrum, FromInt(target_sample_rate),
                                     mel_filter_bank_channels, p.mel_spectrum, checked))
      ResizeMel(p) ==
        MelFilterBank(IF Len(p.mel_spectrum) # mel_filter_bank_channels
                        THEN [p EXCEPT !.mel_spectrum = Resize(@, mel_filter_bank_channels)]
                        ELSE p)
      FftOut(p) ==
        ResizeMel([p EXCEPT !.spectrum = fft_spectrum_of(p.fft_complex)])
      FftComplex(p) ==
        FftOut([p EXCEPT !.fft_complex = fft_complex_of(p.downsample)])
      Downsample(filtered) ==
        IF downsample_panics(filtered, input_sample_rate, target_sample_rate)
          THEN [panic |-> TRUE, pool |-> pool, out |-> out]
          ELSE FftComplex([pool EXCEPT !.downsample =
                 normalize(hamming(pre_emphasis(
                   downsample(filtered, input_sample_rate, target_sample_rate), F_0_97)), SCALE)])
  IN Downsample(low_pass_filter(input, FromInt(input_sample_rate),
                                FDiv(FromInt(target_sample_rate), F_2_0), RANGE))

(* ---------------------------- src/src/lib.rs -------------------------- *)
(* bounds and input sets *)
MaxAudioLen == 12
MaxAccepted == 2
Labels == {"a", "i"}
Waves == {"onset", "saw"}
InputRates == {200, 400}
TargetRates == {200}
ChannelCounts == {1, 2}
\* Option<u32> and Option<bool> / Option<CompareMethod> arguments
None == -1
FrameSizeOpts == {None, 0, 6}
CapacityOpts == {None, 0, 1, 2}
\* compare_method and use_standardization, which no operation reads before
\* finish writes them out, are varied together: both absent or both given
ExportOpts == {<<"None", "None">>, <<"CosineSimilarity", "true">>}

\* sample i of a sawtooth, and of one that sets in after six samples of silence
Sample(w, i) == IF w = "onset" /\ i < 6 THEN 0 ELSE ((i * 307) % (2 * SCALE)) - SCALE
AudioOf(w, n) == Vec([i \in 1..n |-> Sample(w, i - 1)])
Audios == {AudioOf(w, n) : w \in Waves, n \in 0..MaxAudioLen}

\* CompareMethod::as_u32
as_u32(m) == CASE m = "L1Norm" -> 0 [] m = "L2Norm" -> 1 [] m = "CosineSimilarity" -> 2

\* Option::unwrap_or
unwrap_or(opt, default) == IF opt = None THEN default ELSE opt

DEFAULT_MFCC_DATA_COUNT == 16
DEFAULT_SAMPLE_COUNT == 1024

\* the chunking loop of add_sample from `start` on; a Vec push fails once the
\* process holds ChunkLimit chunks (memory is exhausted) and the process aborts
ChunkLimit == MaxAudioLen + 1
RECURSIVE ChunkLoop(_, _, _, _)
ChunkLoop(audio_data, frame_len, start, chunk_list) ==
  LET total     == Len(audio_data)
      end       == Min(start + frame_len, total)
      slice_len == end - start
  IN IF ~(start < total) THEN [oom |-> FALSE, chunk_list |-> chunk_list]
     ELSE IF slice_len = frame_len
       THEN (IF Len(chunk_list) >= ChunkLimit
               THEN [oom |-> TRUE, chunk_list |-> chunk_list]
               ELSE ChunkLoop(audio_data, frame_len, start + frame_len,
                              Append(chunk_list, SubSeq(audio_data, start + 1, end))))
     ELSE ChunkLoop(audio_data, frame_len, start + frame_len, chunk_list)

\* a chunking that pushes every slice, the short last one too
RECURSIVE ChunkLoopAll(_, _, _, _)
ChunkLoopAll(audio_data, frame_len, start, chunk_list) ==
  IF ~(start < Len(audio_data)) \/ Len(chunk_list) >= ChunkLimit
    THEN [oom |-> start < Len(audio_data), chunk_list |-> chunk_list]
    ELSE ChunkLoopAll(audio_data, frame_len, start + frame_len,
           Append(chunk_list,
                  SubSeq(audio_data, start + 1, Min(start + frame_len, Len(audio_data)))))
chunk_list_with_remainder(audio_data, frame_len) == ChunkLoopAll(audio_data, frame_len, 0, <<>>)

\* chunk_list of add_sample
chunk_list_of(audio_data, frame_len) ==
  IF Len(audio_data) = frame_len THEN [oom |-> FALSE, chunk_list |-> <<audio_data>>]
  ELSE IF Len(audio_data) > frame_len THEN ChunkLoop(audio_data, frame_len, 0, <<>>)
  ELSE [oom |-> FALSE, chunk_list |-> <<>>]

\* extract_mfcc as add_sample calls it, with four arguments and the vector as
\* its value: the function of mfcc.rs on a new pool and an empty out vector,
\* tabulated once over the frames the audio inputs can be cut into
FramesOf(a) ==
  {SubSeq(a, x[1] + 1, x[1] + x[2]) :
     x \in {y \in (0..Len(a)) \X (FrameSizeOpts \ {None}) : y[1] + y[2] <= Len(a)}}
AllFrames == UNION {FramesOf(a) : a \in Audios}
ExtractTable ==
  [k \in AllFrames \X InputRates \X TargetRates \X ChannelCounts \X BOOLEAN |->
     extract_mfcc(k[1], k[2], k[3], k[4], MfccBufferPoolNew, <<>>, k[5])] @@ <<>>
mfcc_features_of(chunk, input_sample_rate, tsr, channels, checks) ==
  ExtractTable[<<chunk, input_sample_rate, tsr, channels, checks>>]

\* a check that lets every vector through
never_not_finite(mfcc_features) == FALSE

\* mfcc_features.iter().any(|&value| !value.is_finite())
any_not_finite(mfcc_features) ==
  \E i \in 1..Len(mfcc_features) : ~IsFinite(mfcc_features[i])

\* the list under a key, the empty list when the key is absent
EntryOf(e, name) == IF name \in DOMAIN e THEN e[name] ELSE <<>>

\* a drain from the wrong end: the newest `overflow` vectors go
push_and_drain_newest(entry_list, calibration_data, capacity) ==
  LET pushed == Append(entry_list, calibration_data)
  IN IF Len(pushed) > capacity THEN SubSeq(pushed, 1, capacity) ELSE pushed

\* entry_list.push and the drain of the overflow
push_and_drain(entry_list, calibration_data, capacity) ==
  LET pushed == Append(entry_list, calibration_data)
  IN IF Len(pushed) > capacity
       THEN SubSeq(pushed, Len(pushed) - capacity + 1, Len(pushed))
       ELSE pushed

\* the for loop of add_sample from chunk k on; st = [panic, entries, accepted, computed]
RECURSIVE ChunkFor(_, _, _, _, _)
ChunkFor(chunk_list, k, phoneme_name, input_sample_rate, st) ==
  LET Body(r) ==
        LET seen == [st EXCEPT !.computed = Append(@, r.out)]
        IN IF r.panic THEN [st EXCEPT !.panic = TRUE]
           ELSE IF any_not_finite(r.out)
             THEN ChunkFor(chunk_list, k + 1, phoneme_name, input_sample_rate, seen)
           ELSE ChunkFor(chunk_list, k + 1, phoneme_name, input_sample_rate,
                  [seen EXCEPT
                     !.entries = (phoneme_name :> push_and_drain(EntryOf(@, phoneme_name),
                                                  r.out, self.mfcc_data_count)) @@ @,
                     !.accepted[phoneme_name] = Append(@, r.out)])
  IN IF k > Len(chunk_list) THEN st
     ELSE Body(mfcc_features_of(chunk_list[k], input_sample_rate, self.target_sample_rate,
                                self.mel_filter_bank_channels, overflow_checks))

RECURSIVE SumLen(_, _)
SumLen(f, S) ==
  IF S = {} THEN 0 ELSE LET x == CHOOSE y \in S : TRUE IN Len(f[x]) + SumLen(f, S \ {x})
TotalAccepted == SumLen(accepted, Labels)
\* the process is alive: no call has panicked or exhausted memory
Running == result.status \notin {"Panicked", "OutOfMemory"}

ProfileGeneratorOptions ==
  {[target_sample_rate |-> tsr, mel_filter_bank_channels |-> ch,
    compare_method |-> e[1], mfcc_data_count |-> cap,
    sample_count |-> sc, use_standardization |-> e[2]] :
     tsr \in TargetRates, ch \in ChannelCounts, cap \in CapacityOpts,
     sc \in FrameSizeOpts, e \in ExportOpts}

HarnessIdle == scratch = MfccBufferPoolNew /\ features = <<>> /\ args = <<>> /\ ret = <<>>

\* ProfileGenerator::new
New(opts) ==
  [target_sample_rate |-> opts.target_sample_rate,
   mel_filter_bank_channels |-> opts.mel_filter_bank_channels,
   compare_method |-> IF opts.compare_method = "None" THEN "L2Norm" ELSE opts.compare_method,
   entries |-> <<>>,
   mfcc_data_count |-> unwrap_or(opts.mfcc_data_count, DEFAULT_MFCC_DATA_COUNT),
   sample_count |-> unwrap_or(opts.sample_count, DEFAULT_SAMPLE_COUNT),
   use_standardization |-> IF opts.use_standardization = "None" THEN FALSE ELSE TRUE]

NoCall == [op |-> "new", status |-> "New"]

Init ==
  /\ \E opts \in ProfileGeneratorOptions : self = New(opts)
  /\ overflow_checks \in BOOLEAN
  /\ result = NoCall
  /\ accepted = [l \in Labels |-> <<>>]
  /\ computed = <<>>
  /\ HarnessIdle

\* what add_sample returned, or how it ended
Returned(audio, status) == [op |-> "add_sample", status |-> status, audio_len |-> Len(audio)]

\* add_sample after the check of the audio: chunking and the loop over the chunks
add_sample_chunks(audio, phoneme_name, input_sample_rate) ==
  LET Return(st) ==
        /\ result' = Returned(audio, IF st.panic THEN "Panicked" ELSE "Ok")
        /\ self' = [self EXCEPT !.entries = st.entries]
        /\ accepted' = st.accepted
        /\ computed' = st.computed
      For(chunks) ==
        IF chunks.oom
          THEN /\ result' = Returned(audio, "OutOfMemory")
               /\ computed' = <<>>
               /\ UNCHANGED <<self, accepted>>
          ELSE Return(ChunkFor(chunks.chunk_list, 1, phoneme_name, input_sample_rate,
                               [panic |-> FALSE, entries |-> self.entries,
                                accepted |-> accepted, computed |-> <<>>]))
  IN For(chunk_list_of(audio, self.sample_count))

\* an add_sample without the check of the audio
add_sample_unchecked(audio, phoneme_name, input_sample_rate) ==
  add_sample_chunks(audio, phoneme_name, input_sample_rate)

\* ProfileGenerator::add_sample
add_sample(audio, phoneme_name, input_sample_rate) ==
  IF audio = <<>>
    THEN /\ result' = Returned(audio, "InvalidArg")
         /\ computed' = <<>>
         /\ UNCHANGED <<self, accepted>>
    ELSE add_sample_chunks(audio, phoneme_name, input_sample_rate)

AddSample ==
  /\ Running
  /\ TotalAccepted <= MaxAccepted
  /\ \E audio \in Audios, phoneme_name \in Labels, input_sample_rate \in InputRates :
       add_sample(audio, phoneme_name, input_sample_rate)
  /\ UNCHANGED <<overflow_checks, harness>>

\* the orders in which HashMap::iter may visit the keys
IterOrders(S) ==
  {q \in [1..Cardinality(S) -> S] : \A i, j \in 1..Cardinality(S) : i # j => q[i] # q[j]}

OutputJson(order) ==
  [mfcc_num |-> MFCC_SIZE,
   mfcc_data_count |-> self.mfcc_data_count,
   mel_filter_bank_channels |-> self.mel_filter_bank_channels,
   target_sample_rate |-> self.target_sample_rate,
   sample_count |-> self.sample_count,
   use_standardization |-> IF self.use_standardization THEN 1 ELSE 0,
   compare_method |-> as_u32(self.compare_method),
   mfccs |-> Vec([i \in 1..Len(order) |->
                [name |-> order[i], mfcc_calibration_data_list |-> self.entries[order[i]]]])]

\* a finish that serializes and leaves the entries in place
finish_keeps_entries ==
  \E order \in IterOrders(DOMAIN self.entries) :
    /\ result' = [op |-> "finish", status |-> "Json", output |-> OutputJson(order)]
    /\ accepted' = [l \in Labels |-> <<>>]
    /\ computed' = <<>>
    /\ UNCHANGED self

\* ProfileGenerator::finish
finish ==
  \E order \in IterOrders(DOMAIN self.entries) :
    /\ result' = [op |-> "finish", status |-> "Json", output |-> OutputJson(order)]
    /\ self' = [self EXCEPT !.entries = <<>>]
    /\ accepted' = [l \in Labels |-> <<>>]
    /\ computed' = <<>>

Finish ==
  /\ Running
  /\ finish
  /\ UNCHANGED <<overflow_checks, harness>>

Next == AddSample \/ Finish

Spec == Init /\ [][Next]_vars

(* --------------------- the functions on their own --------------------- *)
\* the store of a default configuration, on which no call is made
StoreIdle ==
  /\ self = New([target_sample_rate |-> 200, mel_filter_bank_channels |-> 2,
                 compare_method |-> "None", mfcc_data_count |-> None,
                 sample_count |-> None, use_standardization |-> "None"])
  /\ result = NoCall
  /\ accepted = [l \in Labels |-> <<>>]
  /\ computed = <<>>

\* the chunking of add_sample (lines 111-127) applied to an audio and a frame size
MaxFrameSize == 6
ChunkInit == StoreIdle /\ overflow_checks = FALSE /\ HarnessIdle
Chunk ==
  /\ \E audio_data \in Audios \ {<<>>}, frame_len \in 0..MaxFrameSize :
       /\ args' = <<audio_data, frame_len>>
       /\ ret' = chunk_list_of(audio_data, frame_len)
  /\ UNCHANGED <<self, overflow_checks, result, history, scratch, features>>
ChunkNext == Chunk
SpecChunk == ChunkInit /\ [][ChunkNext]_vars

\* low_pass_filter applied to a slice; blen is the length of the kernel it built
LpfRates == {100, 200, 400, 500, 800, 1000}
MaxLpfLen == 9
LpfInit == StoreIdle /\ overflow_checks = FALSE /\ HarnessIdle
LowPassFilter ==
  /\ \E w \in Waves, n \in 1..MaxLpfLen, sample_rate \in LpfRates, tsr \in TargetRates :
       LET data   == AudioOf(w, n)
           cutoff == FDiv(FromInt(tsr), F_2_0)
       IN /\ args' = <<data, FromInt(sample_rate), cutoff, RANGE>>
          /\ ret' = [data |-> low_pass_filter(data, FromInt(sample_rate), cutoff, RANGE),
                     blen |-> KernelLen(FromInt(sample_rate), RANGE)]
  /\ UNCHANGED <<self, overflow_checks, result, history, scratch, features>>
LpfNext == LowPassFilter
SpecLpf == LpfInit /\ [][LpfNext]_vars

\* extract_mfcc called again and again with one MfccBufferPool and one out vector
MfccFrames == {AudioOf("saw", 6), AudioOf("onset", 6), AudioOf("saw", 4)}
MfccChannelCounts == {2, 3}
MfccInit == StoreIdle /\ overflow_checks \in BOOLEAN /\ HarnessIdle
ExtractMfcc ==
  /\ IF ret = <<>> THEN TRUE ELSE ~ret.panic
  /\ \E input \in MfccFrames, input_sample_rate \in InputRates,
        target_sample_rate \in TargetRates, mel_filter_bank_channels \in MfccChannelCounts :
       LET Call(r) == /\ scratch' = r.pool
                      /\ features' = r.out
                      /\ ret' = [panic |-> r.panic]
       IN /\ args' = <<input, input_sample_rate, target_sample_rate,
                       mel_filter_bank_channels, scratch, features>>
          /\ Call(extract_mfcc(input, input_sample_rate, target_sample_rate,
                               mel_filter_bank_channels, scratch, features, overflow_checks))
  /\ UNCHANGED <<self, overflow_checks, result, history>>
MfccNext == ExtractMfcc
SpecMfcc == MfccInit /\ [][MfccNext]_vars

(* ---------------------------- the properties ------------------------- *)
\* C1: in every reachable state each label's entry is the last
\* min(n, capacity) vectors accepted for the label since the last finish, in
\* insertion order (n the number accepted), so no entry is longer than the
\* capacity; a label has a key exactly when a vector was accepted for it
C1_EntryHoldsLastAccepted ==
  \A l \in Labels :
    LET n == Len(accepted[l])
        k == Min(n, self.mfcc_data_count)
    IN /\ (l \in DOMAIN self.entries) <=> (n > 0)
       /\ EntryOf(self.entries, l) = SubSeq(accepted[l], n - k + 1, n)
       /\ Len(EntryOf(self.entries, l)) <= self.mfcc_data_count

\* more vectors than the capacity were accepted for a label and the oldest are gone
C1_Evicted ==
  \E l \in Labels :
    /\ self.mfcc_data_count >= 1
    /\ Len(accepted[l]) > self.mfcc_data_count
    /\ Len(EntryOf(self.entries, l)) = self.mfcc_data_count
    /\ EntryOf(self.entries, l) # SubSeq(accepted[l], 1, self.mfcc_data_count)

\* C2: an add_sample with empty audio returns InvalidArg and changes neither
\* the entries (their labels and lists) nor the configuration, whatever the
\* label and the input sample rate
C2_EmptyAudioIsRejected ==
  [][(result'.op = "add_sample" /\ result'.audio_len = 0)
       => (result'.status = "InvalidArg" /\ self' = self /\ accepted' = accepted)]_vars

\* an empty audio was rejected by a store that holds vectors
C2_RejectedOnFilledStore ==
  /\ result.op = "add_sample"
  /\ result.audio_len = 0
  /\ result.status = "InvalidArg"
  /\ \E l \in DOMAIN self.entries : self.entries[l] # <<>>

\* C3: a finish leaves no label in the store and the configuration as it was;
\* its document lists exactly the labels that accepted a vector since the
\* finish before it, each with vectors accepted since then only, so a finish
\* on an empty store returns a document without labels
C3_FinishEmptiesStore ==
  [][Finish =>
       LET mfccs == result'.output.mfccs
       IN /\ self'.entries = <<>>
          /\ self' = [self EXCEPT !.entries = <<>>]
          /\ {mfccs[i].name : i \in 1..Len(mfccs)} = {l \in Labels : accepted[l] # <<>>}
          /\ \A i \in 1..Len(mfccs) :
               LET list == mfccs[i].mfcc_calibration_data_list
                   seen == accepted[mfccs[i].name]
               IN /\ Len(list) <= Len(seen)
                  /\ list = SubSeq(seen, Len(seen) - Len(list) + 1, Len(seen))
          /\ (self.entries = <<>> => mfccs = <<>>)
          /\ result'.output.mfcc_data_count = self.mfcc_data_count
          /\ result'.output.sample_count = self.sample_count
          /\ result'.output.target_sample_rate = self.target_sample_rate
          /\ result'.output.mel_filter_bank_channels = self.mel_filter_bank_channels]_vars

\* a finish returned a document with vectors in it and left the store empty
C3_Exported ==
  /\ result.op = "finish"
  /\ \E i \in 1..Len(result.output.mfccs) :
       result.output.mfccs[i].mfcc_calibration_data_list # <<>>
  /\ self.entries = <<>>

\* C4: no stored vector holds a NaN or an infinity; an add_sample that meets
\* a frame with a non-finite vector still returns Ok, has run every frame of
\* its audio through the pipeline, and has accepted the finite vectors among
\* them, in order
C4_NoNonFiniteStored ==
  /\ \A l \in DOMAIN self.entries :
       \A i \in 1..Len(self.entries[l]) :
         \A j \in 1..Len(self.entries[l][i]) : IsFinite(self.entries[l][i][j])
  /\ (result.op = "add_sample" /\ result.status = "Ok" /\ self.sample_count > 0) =>
       LET finite == SelectSeq(computed, LAMBDA v : \A j \in 1..Len(v) : IsFinite(v[j]))
       IN /\ Len(computed) = result.audio_len \div self.sample_count
          /\ \E l \in Labels :
               /\ Len(finite) <= Len(accepted[l])
               /\ finite = SubSeq(accepted[l], Len(accepted[l]) - Len(finite) + 1,
                                  Len(accepted[l]))

\* one call met a frame with a non-finite vector, went on, and stored the
\* finite vector of the frame after it
C4_SkippedOneFrame ==
  /\ result.op = "add_sample"
  /\ result.status = "Ok"
  /\ Len(computed) = 2
  /\ \E j \in 1..Len(computed[1]) : ~IsFinite(computed[1][j])
  /\ computed[2] # <<>>
  /\ \A j \in 1..Len(computed[2]) : IsFinite(computed[2][j])
  /\ \E l \in DOMAIN self.entries :
       self.entries[l] # <<>> /\ self.entries[l][Len(self.entries[l])] = computed[2]

\* C5: for a non-empty audio of length L and a frame size F >= 1 the chunk
\* list holds exactly L div F frames, frame k being samples [k*F, (k+1)*F) of
\* the audio, in increasing k: none when L < F, and the last L mod F samples
\* are in no frame
C5_FramesAreFullSlices ==
  (args # <<>> /\ args[2] >= 1) =>
    LET audio_data == args[1]
        F == args[2]
        L == Len(audio_data)
    IN /\ ~ret.oom
       /\ Len(ret.chunk_list) = L \div F
       /\ \A k \in 0..(L \div F - 1) :
            ret.chunk_list[k + 1] = SubSeq(audio_data, k * F + 1, (k + 1) * F)

\* an audio was cut into two or more frames and a remainder was left over
C5_RemainderDropped ==
  /\ args # <<>>
  /\ args[2] >= 2
  /\ Len(args[1]) % args[2] # 0
  /\ Len(ret.chunk_list) >= 2

\* C6: every vector held by the store has mfcc_num (MFCC_SIZE = 12)
\* coefficients, whatever the mel filter bank channel count
C6_VectorsHaveMfccNumCoefficients ==
  \A l \in DOMAIN self.entries :
    \A i \in 1..Len(self.entries[l]) : Len(self.entries[l][i]) = MFCC_SIZE

\* C7: a call of extract_mfcc on a used pool and out vector ends as the same
\* call on a new pool and an empty out vector does: it panics or not alike,
\* and yields the same feature vector
C7_ScratchDoesNotLeak ==
  (ret # <<>>) =>
    LET Same(fresh) == /\ ret.panic = fresh.panic
                       /\ ~ret.panic => features = fresh.out
    IN Same(extract_mfcc(args[1], args[2], args[3], args[4],
                         MfccBufferPoolNew, <<>>, overflow_checks))

\* a call that found buffers of another shape, left by an earlier call with
\* another frame length and channel count, returned a finite vector
C7_ReusedPool ==
  /\ ret # <<>>
  /\ ~ret.panic
  /\ args[5].cepstrum # <<>>
  /\ Len(args[5].cepstrum) # args[4]
  /\ Len(args[5].downsample) # Len(scratch.downsample)
  /\ args[6] # <<>>
  /\ features # <<>>
  /\ features # args[6]
  /\ \A j \in 1..Len(features) : IsFinite(features[j])

\* C8: every add_sample returns, with Ok or with InvalidArg
C8_AddSampleReturns ==
  result.op = "add_sample" => result.status \in {"Ok", "InvalidArg"}

\* C9: low_pass_filter leaves in data[i] the sum over j in 0..min(i, blen - 1)
\* of b[j] * x[i - j], x the data it was given and b its kernel
C9_OutputIsCausalConvolution ==
  (ret # <<>>) =>
    LET x        == args[1]
        cutoff_n == FDiv(FSub(args[3], args[4]), args[2])
        b        == Vec([k \in 1..ret.blen |-> KernelCoeff(k - 1, ret.blen, cutoff_n)])
    IN ret.data = Vec([i \in 1..Len(x) |-> ConvolveFrom(0, b, x, i - 1, 0)])

\* C10: a positive kernel length of low_pass_filter is odd
C10_KernelLengthIsOdd ==
  (ret # <<>> /\ ret.blen > 0) => ret.blen % 2 = 1
====
